---- MODULE Spec2Model ----
(***************************************************************************)
(* A model of manipulability.py: the three scoring rules, winners, the     *)
(* greedy search_manipulative_ballot and Experiment.manipulable.           *)
(*                                                                         *)
(* Python lists are sequences (1-based here, 0-based in the source); a     *)
(* defaultdict(int) is an insertion-ordered sequence of <<key, value>>     *)
(* pairs; None and a raised exception are distinguished values.            *)
(***************************************************************************)
EXTENDS Integers, Sequences, FiniteSets, TLC

\* Bounds of the explored inputs.
MaxAlts == 3
MaxOthers == 2

MaxVoters == MaxOthers + 1
MaxManipAlts == MaxAlts - 1

Rules == {"plurality", "borda", "copeland"}

\* Values that are not lists, encoded as one-element sequences of a negative
\* number so that they compare with lists (alternatives are never negative).
None == <<-1>>
ValueError == <<-2>>
IndexError == <<-3>>
Errors == {ValueError, IndexError}

\* ------------------------------------------------------------------------
\* Python built-ins used by the program
\* ------------------------------------------------------------------------

\* list(range(n))
Range(n) == [i \in 1..n |-> i - 1]

Elems(seq) == {seq[i] : i \in 1..Len(seq)}

\* x in seq
Contains(seq, x) == \E i \in 1..Len(seq) : seq[i] = x

\* seq.remove(x): drops the first occurrence of x (ValueError when absent,
\* which callers rule out before using the result).
RemoveFirst(seq, x) ==
    LET i == CHOOSE k \in 1..Len(seq) : seq[k] = x /\ \A j \in 1..(k - 1) : seq[j] # x
    IN  [k \in 1..(Len(seq) - 1) |-> IF k < i THEN seq[k] ELSE seq[k + 1]]

\* max(values)
Max(S) == CHOOSE m \in S : \A x \in S : x <= m

\* ------------------------------------------------------------------------
\* defaultdict(int) as an insertion-ordered association list
\* ------------------------------------------------------------------------

Keys(scores) == [i \in 1..Len(scores) |-> scores[i][1]]

Values(scores) == {scores[i][2] : i \in 1..Len(scores)}

HasKey(scores, k) == \E i \in 1..Len(scores) : scores[i][1] = k

\* scores[k] read: a missing key reads as int() = 0
Get(scores, k) ==
    IF HasKey(scores, k)
    THEN scores[CHOOSE i \in 1..Len(scores) : scores[i][1] = k][2]
    ELSE 0

\* scores[k] += d: updates in place, a missing key is inserted at the end
Incr(scores, k, d) ==
    IF HasKey(scores, k)
    THEN [i \in 1..Len(scores) |->
            IF scores[i][1] = k THEN <<k, scores[i][2] + d>> ELSE scores[i]]
    ELSE Append(scores, <<k, d>>)

\* ------------------------------------------------------------------------
\* Scoring rules
\* ------------------------------------------------------------------------

\* plurality_loop counting the last place of every ballot instead of the first
RECURSIVE plurality_loop_last(_, _, _)
plurality_loop_last(profile, v, scores) ==
    IF v > Len(profile) THEN scores
    ELSE plurality_loop_last(profile, v + 1, Incr(scores, profile[v][Len(profile[v])], 1))

RECURSIVE plurality_loop(_, _, _)
plurality_loop(profile, v, scores) ==
    IF v > Len(profile) THEN scores
    ELSE plurality_loop(profile, v + 1, Incr(scores, profile[v][1], 1))

\* ballot[0] of an empty ballot raises IndexError
plurality_raises(profile) == \E v \in 1..Len(profile) : Len(profile[v]) = 0

plurality_scores(profile) == plurality_loop(profile, 1, <<>>)

RECURSIVE borda_ballot(_, _, _)
borda_ballot(ballot, i, scores) ==
    IF i > Len(ballot) THEN scores
    ELSE borda_ballot(ballot, i + 1, Incr(scores, ballot[i], Len(ballot) - i))

RECURSIVE borda_loop(_, _, _)
borda_loop(profile, v, scores) ==
    IF v > Len(profile) THEN scores
    ELSE borda_loop(profile, v + 1, borda_ballot(profile[v], 1, scores))

borda_scores(profile) == borda_loop(profile, 1, <<>>)

\* profile[0] of an empty profile, or ballot[i] past the end of a ballot
\* shorter than the first one, raises IndexError
copeland_raises(profile) ==
    \/ Len(profile) = 0
    \/ \E v \in 1..Len(profile) : Len(profile[v]) < Len(profile[1])

\* table[a][b]: the number of (ballot, i_top <= i_bottom) with a at i_top and
\* b at i_bottom, over the first n_alternatives positions of every ballot
copeland_table(profile, a, b) ==
    LET n_alternatives == Len(profile[1])
        tops == {t \in (1..Len(profile)) \X (1..n_alternatives) : profile[t[1]][t[2]] = a}
    IN  Cardinality(UNION {{<<t[1], t[2], i_bottom>> :
                               i_bottom \in {k \in t[2]..n_alternatives : profile[t[1]][k] = b}} :
                           t \in tops})

copeland_balance(profile, i, j) ==
    copeland_table(profile, i, j) - copeland_table(profile, j, i)

\* the pairwise contest of i and j: both entries are touched, i first
copeland_contest(profile, i, j, scores) ==
    LET balance == copeland_balance(profile, i, j)
        d == IF balance = 0 THEN 0 ELSE IF balance > 0 THEN 1 ELSE -1
    IN  Incr(Incr(scores, i, d), j, -d)

RECURSIVE copeland_loop(_, _, _, _)
copeland_loop(profile, i, j, scores) ==
    LET n_alternatives == Len(profile[1])
    IN  IF i >= n_alternatives THEN scores
        ELSE IF j >= n_alternatives THEN copeland_loop(profile, i + 1, i + 1, scores)
        ELSE copeland_loop(profile, i, j + 1, copeland_contest(profile, i, j, scores))

copeland_scores(profile) == copeland_loop(profile, 0, 0, <<>>)

rule_raises(rule, profile) ==
    CASE rule = "plurality" -> plurality_raises(profile)
      [] rule = "borda"     -> FALSE
      [] rule = "copeland"  -> copeland_raises(profile)

rule_scores(rule, profile) ==
    CASE rule = "plurality" -> plurality_scores(profile)
      [] rule = "borda"     -> borda_scores(profile)
      [] rule = "copeland"  -> copeland_scores(profile)

\* ------------------------------------------------------------------------
\* winners
\* ------------------------------------------------------------------------

\* winners_select stopping at the first alternative with the top score
RECURSIVE winners_select_first(_, _, _)
winners_select_first(scores, top_score, i) ==
    IF i > Len(scores) THEN <<>>
    ELSE IF scores[i][2] = top_score THEN <<scores[i][1]>>
    ELSE winners_select_first(scores, top_score, i + 1)

RECURSIVE winners_select(_, _, _)
winners_select(scores, top_score, i) ==
    IF i > Len(scores) THEN <<>>
    ELSE IF scores[i][2] = top_score
         THEN <<scores[i][1]>> \o winners_select(scores, top_score, i + 1)
         ELSE winners_select(scores, top_score, i + 1)

\* winners with max(scores.values(), default=0): no scores, no winners, no error
winners_default(scoring_rule, profile) ==
    IF rule_raises(scoring_rule, profile) THEN IndexError
    ELSE LET scores == rule_scores(scoring_rule, profile)
         IN  IF Len(scores) = 0 THEN <<>>
             ELSE winners_select(scores, Max(Values(scores)), 1)

\* The list winners returns, or the exception it raises: the rule's own
\* IndexError, or the ValueError of max() over no scores at all.
winners(scoring_rule, profile) ==
    IF rule_raises(scoring_rule, profile) THEN IndexError
    ELSE LET scores == rule_scores(scoring_rule, profile)
         IN  IF Len(scores) = 0 THEN ValueError
             ELSE winners_select(scores, Max(Values(scores)), 1)

\* ------------------------------------------------------------------------
\* Inputs
\* ------------------------------------------------------------------------

\* The ballots over n alternatives: the permutations of 0..n-1
Ballots(n) == {b \in [1..n -> 0..(n - 1)] : \A i, j \in 1..n : i # j => b[i] # b[j]}

\* The profiles of lo..hi voters over n alternatives
Profiles(n, lo, hi) == UNION {[1..k -> Ballots(n)] : k \in lo..hi}

\* Lexicographic order of two ballots of one length
RECURSIVE BallotLeq(_, _, _)
BallotLeq(a, b, i) ==
    IF i > Len(a) THEN TRUE
    ELSE IF a[i] # b[i] THEN a[i] < b[i]
    ELSE BallotLeq(a, b, i + 1)

\* The same profiles up to the order of the voters: one sequence per multiset
\* of ballots
SortedProfiles(n, lo, hi) ==
    {p \in Profiles(n, lo, hi) : \A v \in 1..(Len(p) - 1) : BallotLeq(p[v], p[v + 1], 1)}

\* Profiles nothing has validated: any number of ballots of any lengths
AnyBallots == UNION {Ballots(n) : n \in 0..MaxAlts}
AnyProfiles == UNION {[1..k -> AnyBallots] : k \in 0..MaxOthers}

EqualLengths(p) == \A v, w \in 1..Len(p) : Len(p[v]) = Len(p[w])

ValidProfile(p) ==
    /\ Len(p) >= 1
    /\ Len(p[1]) >= 1
    /\ \A v \in 1..Len(p) : p[v] \in Ballots(Len(p[1]))

Scenario1 == << <<0, 1, 2, 3>>, <<0, 1, 2, 3>>, <<0, 1, 2, 3>>, <<1, 0, 2, 3>>, <<3, 2, 1, 0>> >>
Scenario2 == << <<0, 1, 2>>, <<1, 2, 0>>, <<2, 0, 1>> >>
Scenario3 == << <<0, 1>>, <<0, 1>> >>

\* ------------------------------------------------------------------------
\* State
\* ------------------------------------------------------------------------

VARIABLES
    rule,                         \* the scoring rule in use
    debug,                        \* Experiment.debug
    profile,                      \* the argument of manipulable / winners
    mpc,                          \* where manipulable is
    truthful_winners,
    i_voter,                      \* position of the voter loop (1-based)
    i_alt,                        \* position of the ballot scan (1-based)
    ret,                          \* what manipulable returned
    n_searches,                   \* searches manipulable has invoked
    n_found,                      \* searches that returned a ballot
    incomplete_profile,           \* the arguments of search_manipulative_ballot
    favourite_alternative,
    arg_profile,                  \* incomplete_profile as it was passed
    pc,                           \* where search_manipulative_ballot is
    manipulative_ballot,
    other_alternatives,
    remaining_other_alternatives,
    i_considered,                 \* position of the for loop in other_alternatives
    i_remaining,                  \* position of the inner for loop
    scores,                       \* the scores of the last tentative ballot
    result,                       \* what the search returned
    calls,                        \* rule invocations of the current search
    wpc,                          \* where the direct call of winners is
    wret                          \* what it returned or raised

manip_vars == <<debug, profile, mpc, truthful_winners, i_voter, i_alt, ret, n_searches, n_found>>

search_vars == <<incomplete_profile, favourite_alternative, arg_profile, pc,
                 manipulative_ballot, other_alternatives, remaining_other_alternatives,
                 i_considered, i_remaining, scores, result, calls>>

winners_vars == <<wpc, wret>>

vars == <<rule, manip_vars, search_vars, winners_vars>>

n_alternatives == Len(incomplete_profile[1])

\* ------------------------------------------------------------------------
\* search_manipulative_ballot
\* ------------------------------------------------------------------------

\* loses tolerating a favourite one point behind
loses_by_two(sc, favourite, alternative) == Get(sc, favourite) + 1 < Get(sc, alternative)

\* loses with <= for <: a tie counts as a loss
loses_or_ties(sc, favourite, alternative) == Get(sc, favourite) <= Get(sc, alternative)

\* scores[favourite_alternative] < scores[alternative]
loses(sc, favourite, alternative) == Get(sc, favourite) < Get(sc, alternative)

\* with_ballot forgetting the ballot: the incomplete profile alone is scored
with_ballot_dropped(incomplete, ballot) == incomplete

\* incomplete_profile + [ballot]
with_ballot(incomplete, ballot) == incomplete \o <<ballot>>

\* manipulative_ballot + [considered_alternative] + remaining_other_alternatives
tentative_ballot(ballot, considered, remaining) == ballot \o <<considered>> \o remaining

\* Lines 84-86. incomplete_profile[0] raises IndexError on an empty profile.
search_begin ==
    /\ pc = "begin"
    /\ IF Len(incomplete_profile) = 0
       THEN /\ pc' = "raised"
            /\ result' = IndexError
            /\ UNCHANGED <<manipulative_ballot, other_alternatives>>
       ELSE /\ manipulative_ballot' = <<favourite_alternative>>
            /\ other_alternatives' = RemoveFirst(Range(n_alternatives), favourite_alternative)
            /\ pc' = "while"
            /\ UNCHANGED result
    /\ calls' = 0
    /\ UNCHANGED <<rule, manip_vars, winners_vars, incomplete_profile, favourite_alternative,
                   arg_profile, remaining_other_alternatives, i_considered, i_remaining, scores>>

\* Line 88, the loop goes on: the for loop starts at the first alternative.
search_while ==
    /\ pc = "while"
    /\ Len(other_alternatives) > 0
    /\ pc' = "for"
    /\ i_considered' = 1
    /\ UNCHANGED <<rule, manip_vars, winners_vars, incomplete_profile, favourite_alternative,
                   arg_profile, manipulative_ballot, other_alternatives,
                   remaining_other_alternatives, i_remaining, scores, result, calls>>

\* Lines 88 and 125: nothing is left to place, the ballot is returned.
search_return_ballot ==
    /\ pc = "while"
    /\ Len(other_alternatives) = 0
    /\ pc' = "done"
    /\ result' = manipulative_ballot
    /\ UNCHANGED <<rule, manip_vars, winners_vars, incomplete_profile, favourite_alternative,
                   arg_profile, manipulative_ballot, other_alternatives,
                   remaining_other_alternatives, i_considered, i_remaining, scores, calls>>

\* Lines 89-95: the next alternative is considered and the profile with the
\* tentative ballot is scored.
search_consider ==
    /\ pc = "for"
    /\ i_considered <= Len(other_alternatives)
    /\ LET considered_alternative == other_alternatives[i_considered]
           remaining == RemoveFirst(other_alternatives, considered_alternative)
       IN  /\ remaining_other_alternatives' = remaining
           /\ scores' = rule_scores(rule, with_ballot(incomplete_profile,
                           tentative_ballot(manipulative_ballot, considered_alternative, remaining)))
    /\ calls' = calls + 1
    /\ pc' = "scored"
    /\ UNCHANGED <<rule, manip_vars, winners_vars, incomplete_profile, favourite_alternative,
                   arg_profile, manipulative_ballot, other_alternatives, i_considered,
                   i_remaining, result>>

\* Lines 97-99: the favourite loses to the considered alternative, try the next.
search_skip ==
    /\ pc = "scored"
    /\ loses(scores, favourite_alternative, other_alternatives[i_considered])
    /\ i_considered' = i_considered + 1
    /\ pc' = "for"
    /\ UNCHANGED <<rule, manip_vars, winners_vars, incomplete_profile, favourite_alternative,
                   arg_profile, manipulative_ballot, other_alternatives,
                   remaining_other_alternatives, i_remaining, scores, result, calls>>

\* search_commit without line 104: the alternative stays in other_alternatives
search_commit_keeps ==
    /\ pc = "scored"
    /\ ~loses(scores, favourite_alternative, other_alternatives[i_considered])
    /\ manipulative_ballot' = Append(manipulative_ballot, other_alternatives[i_considered])
    /\ i_remaining' = 1
    /\ pc' = "lucky"
    /\ UNCHANGED <<rule, manip_vars, winners_vars, incomplete_profile, favourite_alternative,
                   arg_profile, other_alternatives, remaining_other_alternatives,
                   i_considered, scores, result, calls>>

\* Lines 101-104: the considered alternative is placed next on the ballot.
search_commit ==
    /\ pc = "scored"
    /\ ~loses(scores, favourite_alternative, other_alternatives[i_considered])
    /\ manipulative_ballot' = Append(manipulative_ballot, other_alternatives[i_considered])
    /\ other_alternatives' = RemoveFirst(other_alternatives, other_alternatives[i_considered])
    /\ i_remaining' = 1
    /\ pc' = "lucky"
    /\ UNCHANGED <<rule, manip_vars, winners_vars, incomplete_profile, favourite_alternative,
                   arg_profile, remaining_other_alternatives, i_considered, scores,
                   result, calls>>

\* Lines 120-122: the for loop ran out without a break.
search_return_none ==
    /\ pc = "for"
    /\ i_considered > Len(other_alternatives)
    /\ pc' = "done"
    /\ result' = None
    /\ UNCHANGED <<rule, manip_vars, winners_vars, incomplete_profile, favourite_alternative,
                   arg_profile, manipulative_ballot, other_alternatives,
                   remaining_other_alternatives, i_considered, i_remaining, scores, calls>>

\* search_lucky without line 116: the alternative stays in other_alternatives
search_lucky_keeps ==
    /\ pc = "lucky"
    /\ i_remaining <= Len(remaining_other_alternatives)
    /\ ~loses(scores, favourite_alternative, remaining_other_alternatives[i_remaining])
    /\ manipulative_ballot' = Append(manipulative_ballot, remaining_other_alternatives[i_remaining])
    /\ i_remaining' = i_remaining + 1
    /\ UNCHANGED <<rule, manip_vars, winners_vars, incomplete_profile, favourite_alternative,
                   arg_profile, pc, other_alternatives, remaining_other_alternatives,
                   i_considered, scores, result, calls>>

\* Lines 107-116: the next remaining alternative is placed as well.
search_lucky ==
    /\ pc = "lucky"
    /\ i_remaining <= Len(remaining_other_alternatives)
    /\ ~loses(scores, favourite_alternative, remaining_other_alternatives[i_remaining])
    /\ manipulative_ballot' = Append(manipulative_ballot, remaining_other_alternatives[i_remaining])
    /\ other_alternatives' = RemoveFirst(other_alternatives, remaining_other_alternatives[i_remaining])
    /\ i_remaining' = i_remaining + 1
    /\ UNCHANGED <<rule, manip_vars, winners_vars, incomplete_profile, favourite_alternative,
                   arg_profile, pc, remaining_other_alternatives, i_considered, scores,
                   result, calls>>

\* Lines 107-111 and 119: the inner loop ends or breaks, back to the while.
search_lucky_end ==
    /\ pc = "lucky"
    /\ i_remaining <= Len(remaining_other_alternatives)
          => loses(scores, favourite_alternative, remaining_other_alternatives[i_remaining])
    /\ pc' = "while"
    /\ UNCHANGED <<rule, manip_vars, winners_vars, incomplete_profile, favourite_alternative,
                   arg_profile, manipulative_ballot, other_alternatives,
                   remaining_other_alternatives, i_considered, i_remaining, scores,
                   result, calls>>

SearchNext ==
    \/ search_begin
    \/ search_while
    \/ search_return_ballot
    \/ search_consider
    \/ search_skip
    \/ search_commit
    \/ search_return_none
    \/ search_lucky
    \/ search_lucky_end

\* A direct call of search_manipulative_ballot on a non-empty profile of valid
\* ballots, for a favourite among its alternatives.
SearchInit ==
    /\ rule \in Rules
    /\ \E n \in 1..MaxAlts :
          /\ incomplete_profile \in SortedProfiles(n, 1, MaxOthers)
          /\ favourite_alternative \in 0..(n - 1)
    /\ arg_profile = incomplete_profile
    /\ pc = "begin"
    /\ manipulative_ballot = <<>>
    /\ other_alternatives = <<>>
    /\ remaining_other_alternatives = <<>>
    /\ i_considered = 1
    /\ i_remaining = 1
    /\ scores = <<>>
    /\ result = None
    /\ calls = 0
    /\ debug = FALSE
    /\ profile = <<>>
    /\ mpc = "idle"
    /\ truthful_winners = <<>>
    /\ i_voter = 1
    /\ i_alt = 1
    /\ ret = "None"
    /\ n_searches = 0
    /\ n_found = 0
    /\ wpc = "idle"
    /\ wret = <<>>

SpecSearch == SearchInit /\ [][SearchNext]_vars

\* ------------------------------------------------------------------------
\* Experiment.manipulable
\* ------------------------------------------------------------------------

\* if manipulative_ballot: neither None nor an empty list
truthy(ballot) == ballot # None /\ Len(ballot) > 0

\* Line 137. The print of lines 139-140 changes no state.
manipulable_begin ==
    /\ mpc = "begin"
    /\ truthful_winners' = winners(rule, profile)
    /\ IF winners(rule, profile) \in Errors
       THEN mpc' = "raised"
       ELSE mpc' = "scan"
    /\ i_voter' = 1
    /\ i_alt' = 1
    /\ UNCHANGED <<rule, debug, profile, ret, n_searches, n_found, search_vars, winners_vars>>

\* Lines 142-144: this voter's ballot is exhausted, on to the next voter.
manipulable_next_voter ==
    /\ mpc = "scan"
    /\ i_voter <= Len(profile)
    /\ i_alt > Len(profile[i_voter])
    /\ i_voter' = i_voter + 1
    /\ i_alt' = 1
    /\ UNCHANGED <<rule, debug, profile, mpc, truthful_winners, ret, n_searches, n_found,
                   search_vars, winners_vars>>

\* Lines 146-152: the alternative is a truthful winner. The break is inside
\* `if self.debug:`, so only a debugging Experiment leaves the ballot.
manipulable_winner ==
    /\ mpc = "scan"
    /\ i_voter <= Len(profile)
    /\ i_alt <= Len(profile[i_voter])
    /\ Contains(truthful_winners, profile[i_voter][i_alt])
    /\ IF debug
       THEN /\ i_voter' = i_voter + 1
            /\ i_alt' = 1
       ELSE /\ i_alt' = i_alt + 1
            /\ UNCHANGED i_voter
    /\ UNCHANGED <<rule, debug, profile, mpc, truthful_winners, ret, n_searches, n_found,
                   search_vars, winners_vars>>

\* Lines 153-159: the voter's ballot is removed and the search is called.
manipulable_call_search ==
    /\ mpc = "scan"
    /\ i_voter <= Len(profile)
    /\ i_alt <= Len(profile[i_voter])
    /\ ~Contains(truthful_winners, profile[i_voter][i_alt])
    /\ incomplete_profile' = RemoveFirst(profile, profile[i_voter])
    /\ arg_profile' = RemoveFirst(profile, profile[i_voter])
    /\ favourite_alternative' = profile[i_voter][i_alt]
    /\ pc' = "begin"
    /\ mpc' = "searching"
    /\ n_searches' = n_searches + 1
    /\ UNCHANGED <<rule, debug, profile, truthful_winners, i_voter, i_alt, ret, n_found,
                   manipulative_ballot, other_alternatives, remaining_other_alternatives,
                   i_considered, i_remaining, scores, result, calls, winners_vars>>

\* Lines 161-165: the search returned a ballot, the profile is manipulable.
manipulable_return_true ==
    /\ mpc = "searching"
    /\ pc = "done"
    /\ truthy(result)
    /\ ret' = "True"
    /\ mpc' = "returned"
    /\ n_found' = n_found + 1
    /\ pc' = "idle"
    /\ UNCHANGED <<rule, debug, profile, truthful_winners, i_voter, i_alt, n_searches,
                   incomplete_profile, favourite_alternative, arg_profile,
                   manipulative_ballot, other_alternatives, remaining_other_alternatives,
                   i_considered, i_remaining, scores, result, calls, winners_vars>>

\* Lines 167-170: no ballot, on to the next alternative of this voter.
manipulable_next_alternative ==
    /\ mpc = "searching"
    /\ pc = "done"
    /\ ~truthy(result)
    /\ i_alt' = i_alt + 1
    /\ mpc' = "scan"
    /\ pc' = "idle"
    /\ UNCHANGED <<rule, debug, profile, truthful_winners, i_voter, ret, n_searches, n_found,
                   incomplete_profile, favourite_alternative, arg_profile,
                   manipulative_ballot, other_alternatives, remaining_other_alternatives,
                   i_considered, i_remaining, scores, result, calls, winners_vars>>

\* Line 159: an exception of the search leaves manipulable as well.
manipulable_search_raised ==
    /\ mpc = "searching"
    /\ pc = "raised"
    /\ mpc' = "raised"
    /\ pc' = "idle"
    /\ UNCHANGED <<rule, debug, profile, truthful_winners, i_voter, i_alt, ret, n_searches,
                   n_found, incomplete_profile, favourite_alternative, arg_profile,
                   manipulative_ballot, other_alternatives, remaining_other_alternatives,
                   i_considered, i_remaining, scores, result, calls, winners_vars>>

\* Line 142 with no voter left: the method ends without a return statement,
\* which returns None.
manipulable_fall_through ==
    /\ mpc = "scan"
    /\ i_voter > Len(profile)
    /\ ret' = "None"
    /\ mpc' = "returned"
    /\ UNCHANGED <<rule, debug, profile, truthful_winners, i_voter, i_alt, n_searches,
                   n_found, search_vars, winners_vars>>

Init ==
    /\ rule \in Rules
    /\ debug \in BOOLEAN
    /\ profile \in UNION {Profiles(n, 1, MaxVoters) : n \in 1..MaxManipAlts}
                      \cup {Scenario1, Scenario2}
    /\ mpc = "begin"
    /\ truthful_winners = <<>>
    /\ i_voter = 1
    /\ i_alt = 1
    /\ ret = "None"
    /\ n_searches = 0
    /\ n_found = 0
    /\ incomplete_profile = <<>>
    /\ favourite_alternative = 0
    /\ arg_profile = <<>>
    /\ pc = "idle"
    /\ manipulative_ballot = <<>>
    /\ other_alternatives = <<>>
    /\ remaining_other_alternatives = <<>>
    /\ i_considered = 1
    /\ i_remaining = 1
    /\ scores = <<>>
    /\ result = None
    /\ calls = 0
    /\ wpc = "idle"
    /\ wret = <<>>

Next ==
    \/ manipulable_begin
    \/ manipulable_next_voter
    \/ manipulable_winner
    \/ manipulable_call_search
    \/ manipulable_return_true
    \/ manipulable_next_alternative
    \/ manipulable_search_raised
    \/ manipulable_fall_through
    \/ search_begin
    \/ search_while
    \/ search_return_ballot
    \/ search_consider
    \/ search_skip
    \/ search_commit
    \/ search_return_none
    \/ search_lucky
    \/ search_lucky_end

Spec == Init /\ [][Next]_vars

\* ------------------------------------------------------------------------
\* A direct call of winners, on any profile
\* ------------------------------------------------------------------------

winners_call ==
    /\ wpc = "begin"
    /\ wret' = winners(rule, profile)
    /\ wpc' = "done"
    /\ UNCHANGED <<rule, manip_vars, search_vars>>

WinnersInit ==
    /\ rule \in Rules
    /\ profile \in AnyProfiles
    /\ wpc = "begin"
    /\ wret = <<>>
    /\ debug = FALSE
    /\ mpc = "idle"
    /\ truthful_winners = <<>>
    /\ i_voter = 1
    /\ i_alt = 1
    /\ ret = "None"
    /\ n_searches = 0
    /\ n_found = 0
    /\ incomplete_profile = <<>>
    /\ favourite_alternative = 0
    /\ arg_profile = <<>>
    /\ pc = "idle"
    /\ manipulative_ballot = <<>>
    /\ other_alternatives = <<>>
    /\ remaining_other_alternatives = <<>>
    /\ i_considered = 1
    /\ i_remaining = 1
    /\ scores = <<>>
    /\ result = None
    /\ calls = 0

WinnersNext == winners_call

SpecWinners == WinnersInit /\ [][WinnersNext]_vars

\* ------------------------------------------------------------------------
\* Properties
\* ------------------------------------------------------------------------

NoDuplicates(seq) == \A i, j \in 1..Len(seq) : i # j => seq[i] # seq[j]

Alternatives == 0..(n_alternatives - 1)

InSearch == pc \in {"while", "for", "scored", "lucky", "done"}

Returned == pc = "done"

\* C1: whenever the search returns a ballot, the favourite is among the
\* winners of the incomplete profile extended by that ballot, its score being
\* the maximum score of that profile.
C1_Soundness ==
    (Returned /\ result # None) =>
        LET full == with_ballot(arg_profile, result)
            sc == rule_scores(rule, full)
        IN  /\ Contains(winners(rule, full), favourite_alternative)
            /\ Get(sc, favourite_alternative) = Max({Get(sc, a) : a \in Alternatives})

\* A ballot was returned for a favourite that does not win without it.
C1_Witness ==
    /\ Returned
    /\ result # None
    /\ rule = "copeland"
    /\ n_alternatives = 3
    /\ ~Contains(winners(rule, arg_profile), favourite_alternative)

\* First-place votes of an alternative in a profile
FirstPlaces(p, a) == Cardinality({v \in 1..Len(p) : p[v][1] = a})

\* C6: under plurality the search never raises, and it returns None exactly
\* when some other alternative has more first places in the incomplete profile
\* than the favourite's first places plus one; so it does for [[0,1],[0,1]]
\* and favourite 1.
C6_PluralityAbsence ==
    rule = "plurality" =>
        /\ pc # "raised"
        /\ Returned =>
              /\ result = None <=>
                    \E c \in Alternatives \ {favourite_alternative} :
                        FirstPlaces(arg_profile, c) >
                            FirstPlaces(arg_profile, favourite_alternative) + 1
              /\ result # None => result \in Ballots(n_alternatives)
              /\ (arg_profile = Scenario3 /\ favourite_alternative = 1) => result = None

\* The search of scenario 3 has returned None.
C6_Witness ==
    /\ Returned
    /\ rule = "plurality"
    /\ arg_profile = Scenario3
    /\ favourite_alternative = 1
    /\ result = None
    /\ calls = 1

\* C8: throughout the search the ballot under construction and the list of
\* alternatives not yet placed are disjoint, free of duplicates and cover
\* 0..n-1 together, the favourite is first on the ballot, the profile passed
\* in is unchanged, and a returned ballot is a permutation of all the
\* alternatives with the favourite first.
C8_WellFormed ==
    InSearch =>
        /\ NoDuplicates(manipulative_ballot \o other_alternatives)
        /\ Elems(manipulative_ballot) \cap Elems(other_alternatives) = {}
        /\ Elems(manipulative_ballot) \cup Elems(other_alternatives) = Alternatives
        /\ Len(manipulative_ballot) >= 1
        /\ manipulative_ballot[1] = favourite_alternative
        /\ incomplete_profile = arg_profile
        /\ (Returned /\ result # None) =>
              /\ result \in Ballots(n_alternatives)
              /\ Len(result) = n_alternatives
              /\ result[1] = favourite_alternative

\* The inner loop has placed a second alternative in one pass and one is left.
C8_Witness ==
    /\ pc = "lucky"
    /\ i_remaining = 2
    /\ Len(manipulative_ballot) = 3
    /\ Len(other_alternatives) = 0
    /\ n_alternatives = 3

\* A measure of the work the search has left: the alternatives not yet
\* placed, then the position inside the current pass.
Rank ==
    LET n == n_alternatives
        pass == 3 * n + 5
    IN  CASE pc = "begin"  -> pass * (n + 1)
          [] pc = "while"  -> pass * Len(other_alternatives) + 2 * n + 3
          [] pc = "for"    -> pass * Len(other_alternatives) + 2 * (n + 1 - i_considered) + 2
          [] pc = "scored" -> pass * Len(other_alternatives) + 2 * (n + 1 - i_considered) + 1
          [] pc = "lucky"  -> pass * Len(other_alternatives) + 2 * n + 4 + (n + 1 - i_remaining)
          [] OTHER         -> 0

\* C9: every step of the search lowers a measure that is never negative (a
\* pass places an alternative or ends the search with None after every
\* candidate was tried), so the search terminates; and it invokes the rule at
\* most n*(n-1)/2 times, hence at most n*n times.
C9_Termination ==
    /\ [][Rank' < Rank]_vars
    /\ [](/\ Rank >= 0
          /\ 2 * calls <= n_alternatives * (n_alternatives - 1)
          /\ calls <= n_alternatives * n_alternatives
          /\ (pc = "for" /\ i_considered > Len(other_alternatives)) =>
                \A c \in Elems(other_alternatives) :
                    loses(rule_scores(rule, with_ballot(incomplete_profile,
                              tentative_ballot(manipulative_ballot, c,
                                               RemoveFirst(other_alternatives, c)))),
                          favourite_alternative, c))

\* A search over three alternatives has returned after three invocations.
C9_Witness ==
    /\ Returned
    /\ n_alternatives = 3
    /\ calls = 3

\* C10: when the search returns None for one of the three rules, no ballot at
\* all makes the favourite a winner of the extended profile.
C10_Completeness ==
    (Returned /\ result = None) =>
        \A b \in Ballots(n_alternatives) :
            ~Contains(winners(rule, with_ballot(arg_profile, b)), favourite_alternative)

\* None was returned under Borda or Copeland after an alternative was placed.
C10_Witness ==
    /\ Returned
    /\ result = None
    /\ rule # "plurality"
    /\ Len(manipulative_ballot) >= 2

\* C7: on a non-empty profile of valid ballots, winners returns a non-empty
\* list without duplicates that holds exactly the alternatives whose score (0
\* without an entry) is the maximum score.
C7_WinnersExact ==
    (wpc = "done" /\ ValidProfile(profile)) =>
        LET sc == rule_scores(rule, profile)
            alts == 0..(Len(profile[1]) - 1)
            top == Max({Get(sc, a) : a \in alts})
        IN  /\ wret \notin Errors
            /\ Len(wret) >= 1
            /\ NoDuplicates(wret)
            /\ Elems(wret) = {a \in alts : Get(sc, a) = top}

\* Two plurality winners while another alternative has no score entry.
C7_Witness ==
    /\ wpc = "done"
    /\ ValidProfile(profile)
    /\ rule = "plurality"
    /\ Len(wret) = 2
    /\ Len(profile[1]) = 3

C3_AsClaimed ==
    (profile = Scenario1 /\ rule = "borda" /\ mpc = "returned") =>
        /\ truthful_winners = <<0>>
        /\ ret = "False"

\* C3 as amended: scenario 1 under Borda has the truthful winners {0} and
\* manipulable returns True, the search having returned a ballot that makes
\* its favourite a winner.
C3_Scenario1 ==
    (profile = Scenario1 /\ rule = "borda") =>
        /\ mpc # "raised"
        /\ mpc = "returned" =>
              /\ truthful_winners = <<0>>
              /\ ret = "True"
              /\ Contains(winners(rule, with_ballot(arg_profile, result)), favourite_alternative)

\* manipulable has returned for scenario 1 with the stop-scanning rule on:
\* voter 3 elects alternative 1 by the ballot [1,2,0,3].
C3_Witness ==
    /\ profile = Scenario1
    /\ rule = "borda"
    /\ debug
    /\ mpc = "returned"
    /\ i_voter = 4
    /\ favourite_alternative = 1
    /\ result = <<1, 2, 0, 3>>

\* C2 as claimed: no search is running for an alternative ranked below a
\* truthful winner on the voter's ballot, and when every voter's top choice is
\* a truthful winner no search was invoked and the result is not True (that
\* it is False rather than None is the matter of C4).
C2_AsClaimed ==
    /\ mpc = "searching" =>
          \A j \in 1..(i_alt - 1) : ~Contains(truthful_winners, profile[i_voter][j])
    /\ (mpc = "returned" /\ \A v \in 1..Len(profile) : Contains(truthful_winners, profile[v][1])) =>
          /\ n_searches = 0
          /\ ret # "True"

\* C4 as claimed: manipulable never raises, and returns True when a search it
\* invoked returned a ballot and False otherwise.
C4_AsClaimed ==
    /\ mpc # "raised"
    /\ mpc = "returned" =>
          /\ ret \in {"True", "False"}
          /\ ret = "True" <=> n_found > 0

====
